---- MODULE Spec2Model ----
(***************************************************************************)
(* Model of rtfs: a FUSE adapter (src/src/rtfs.rs) over the Artifactory    *)
(* storage API client (src/src/artifactory.rs).                            *)
(*                                                                         *)
(* Strings whose characters matter (paths, sizes, child references) are    *)
(* sequences of one-character strings.  Timestamps and locators are        *)
(* opaque strings.  A panic of the adapter is the state alive = FALSE.     *)
(***************************************************************************)
EXTENDS Integers, Sequences, FiniteSets, TLC

\* ------------------------------------------------------------------ bounds
\* Total number of filesystem operations the mount layer dispatches.
MaxOps == 2

\* ------------------------------------------------------- program constants
ENOTDIR == 20
EISDIR == 21
EINVAL == 22
\* lower end of the range the constructor seeds both counters from
SeedLow == 43690
\* size reported for everything that is not a File listing
DirSize == 4096
\* permission bits of every attribute record (0o0666)
perm == 438

\* ------------------------------------------------------------- input sets
Threads == {"t1", "t2"}
NoThread == "none"

Root == <<"/">>
PathA == <<"/", "a">>
FsPaths == {Root, PathA}

\* the repository name given on the command line (self.repo)
repo == <<"r">>

\* seeds gen_range(0xaaaa, u64::MAX / 2) can produce for the two counters:
\* the lowest values, as an unequal and an equal pair
DirSeeds == {SeedLow, SeedLow + 1}
FileSeeds == {SeedLow + 1}

\* handle values the mount layer may pass to readdir and releasedir: the
\* "missing handle" value, and values that may or may not name an open handle
DirHandleArgs == {0, SeedLow + 1, SeedLow + 2}

\* handle values the mount layer may pass to read and release
FileHandleArgs == {SeedLow + 1, SeedLow + 2}

Offsets == {0, 2}
Sizes == {0, 2}
\* values an uninitialised byte of the read buffer may hold
GarbageBytes == {0, 255}

\* ------------------------------------------------------------ pure helpers
StartsWith(s, p) == Len(s) >= Len(p) /\ SubSeq(s, 1, Len(p)) = p

DropFirst(s, n) == SubSeq(s, n + 1, Len(s))

\* str::trim_start_matches: removes every repeated leading match of pat
RECURSIVE trim_start_matches(_, _)
trim_start_matches(s, pat) ==
  IF pat # <<>> /\ StartsWith(s, pat)
    THEN trim_start_matches(DropFirst(s, Len(pat)), pat)
    ELSE s

\* the remote query path stat_for_path sends for a filesystem path
StatQueryPath(path) ==
  LET p1 == IF path = <<"/">> THEN <<>> ELSE path
      p2 == IF StartsWith(p1, <<"/">>) THEN DropFirst(p1, 1) ELSE p1
  IN  repo \o <<"/">> \o p2

\* the remote query path readdir sends for a filesystem path
ReaddirQueryPath(path) == repo \o <<"/">> \o path

\* mutant: the locator is stored under the remote query path
UriKeyQueryPath(path) == StatQueryPath(path)

\* the key stat_for_path stores a File's locator under
UriKey(path) == trim_start_matches(StatQueryPath(path), repo)

ParseErr == -1

Digits == {"0", "1", "2", "3", "4", "5", "6", "7", "8", "9"}

DigitVal(c) ==
  CASE c = "0" -> 0 [] c = "1" -> 1 [] c = "2" -> 2 [] c = "3" -> 3
    [] c = "4" -> 4 [] c = "5" -> 5 [] c = "6" -> 6 [] c = "7" -> 7
    [] c = "8" -> 8 [] c = "9" -> 9

RECURSIVE DigitsValue(_, _)
DigitsValue(s, acc) ==
  IF s = <<>> THEN acc ELSE DigitsValue(Tail(s), acc * 10 + DigitVal(Head(s)))

\* str::parse::<u64>: an optional '+', then one or more decimal digits.
\* (The size strings of the model are far below u64::MAX.)
ParseU64(s) ==
  LET body == IF s # <<>> /\ Head(s) = "+" THEN Tail(s) ELSE s
  IN  IF body # <<>> /\ \A i \in 1..Len(body) : body[i] \in Digits
        THEN DigitsValue(body, 0)
        ELSE ParseErr

\* time::strptime(ts, "%Y-%m-%dT%H:%M:%S") followed by to_timespec: seconds
\* since the epoch; input after the seconds field is ignored.
timestamp_to_timespec(ts) ==
  CASE ts = "2020-01-01T00:00:00" -> 1577836800
    [] ts = "2020-01-01T00:00:00.000Z" -> 1577836800
    [] ts = "2020-01-02T00:00:00" -> 1577923200
    [] ts = "2020-01-03T00:00:00.000Z" -> 1578009600
    [] OTHER -> ParseErr

\* DirEntry::get_name: the reference from byte 1 on; slicing an empty
\* string at 1 panics.
GetNamePanics(uri) == Len(uri) < 1
\* mutant: the reference is used whole
get_name_whole(uri) == uri


get_name(uri) == SubSeq(uri, 2, Len(uri))

\* --------------------------------------------------- the remote's answers
GoodStamps ==
  [created |-> "2020-01-01T00:00:00",
   last_modified |-> "2020-01-02T00:00:00",
   last_updated |-> "2020-01-03T00:00:00.000Z"]

BadStamps ==
  [created |-> "2020-01-01T00:00:00",
   last_modified |-> "yesterday",
   last_updated |-> "2020-01-03T00:00:00.000Z"]

\* children of a Directory listing; the storage API writes a child reference
\* as "/name", the last two lists are references it does not produce
ChildrenLists ==
  { <<>>,
    << [folder |-> FALSE, uri |-> <<"/", "f">>],
       [folder |-> TRUE, uri |-> <<"/", "o">>] >>,
    << [folder |-> TRUE, uri |-> <<"x">>] >>,
    << [folder |-> FALSE, uri |-> <<>>] >> }

SizeStrings == { <<"7">>, <<"1", "0">>, <<"x">> }

\* Listing::Directory(DirInfo)
DirListings ==
  { [tag |-> "Directory", children |-> c, stamps |-> GoodStamps] :
      c \in ChildrenLists }
  \cup { [tag |-> "Directory", children |-> <<>>, stamps |-> BadStamps] }

\* Listing::File(FileInfo): uri is the storage API address of the item,
\* download_uri the address its content is served from
FileListings ==
  { [tag |-> "File", size |-> z, stamps |-> GoodStamps,
     uri |-> "storage-uri", download_uri |-> "download-uri"] :
      z \in SizeStrings }
  \cup { [tag |-> "File", size |-> <<"7">>, stamps |-> BadStamps,
          uri |-> "storage-uri", download_uri |-> "download-uri"] }

\* Listing::Error(RtErrors)
ErrorListing == [tag |-> "Error"]

Listings == DirListings \cup FileListings \cup {ErrorListing}

\* anyhow::Result<Listing> of Artifactory::storage; the remote is free to
\* answer any query with any listing, and the request may fail
TransportErr == [tag |-> "TransportErr"]

StorageResults == Listings \cup {TransportErr}

NoListing == [tag |-> "None"]

\* what the remote serves under a locator
RemoteContent(locator) ==
  IF locator = "download-uri" THEN <<10, 11, 12>> ELSE <<123, 34, 125>>

Min(a, b) == IF a < b THEN a ELSE b

\* body of the answer to "Range: bytes=first-last" (both ends inclusive,
\* clipped to the content; nothing when first is past the end)
RangeBody(content, first, last) ==
  IF first >= Len(content) THEN <<>>
  ELSE SubSeq(content, first + 1, Min(last, Len(content) - 1) + 1)

\* the Range header Artifactory::read_file sends: <<first, last>>
RangeHeader(offset, size) == <<offset, offset + size>>

\* ------------------------------------------------------------------ state
VARIABLES
  th,                \* per dispatching thread: the call in progress
  lock,              \* owner of each Mutex
  dir_handles,       \* _dir_handles: handle -> FsInfo
  file_handles,      \* _file_handles: handle -> FsInfo
  last_dir_handle,   \* _last_dir_handle
  last_file_handle,  \* _last_file_handle
  uris,              \* _uris: path -> locator
  alive,             \* FALSE once an operation has panicked
  nOps,              \* operations dispatched so far
  dirIssued,         \* history: handles returned by opendir, in order
  fileIssued         \* history: handles returned by open, in order

vars ==
  <<th, lock, dir_handles, file_handles, last_dir_handle, last_file_handle,
    uris, alive, nOps, dirIssued, fileIssued>>

adapter == <<dir_handles, file_handles, last_dir_handle, last_file_handle, uris>>

LockNames ==
  {"_last_dir_handle", "_dir_handles", "_last_file_handle", "_file_handles",
   "_uris"}

EmptyMap == [x \in {} |-> 0]

Insert(m, k, v) == [x \in DOMAIN m \cup {k} |-> IF x = k THEN v ELSE m[x]]

\* HashMap::remove
Remove(m, k) == [x \in DOMAIN m \ {k} |-> m[x]]

NoAttr == [kind |-> "None"]
NoResult == [tag |-> "None"]

IdleThread ==
  [pc |-> "idle", op |-> "none", path |-> Root, fh |-> 0, offset |-> 0,
   size |-> 0, query |-> <<>>, queried |-> FALSE, listing |-> NoListing,
   attr |-> NoAttr, locator |-> "",
   fhOpenAtCall |-> FALSE, result |-> NoResult]

RtFS_new ==
  /\ th = [t \in Threads |-> IdleThread]
  /\ lock = [l \in LockNames |-> NoThread]
  /\ dir_handles = EmptyMap
  /\ file_handles = EmptyMap
  /\ last_dir_handle \in DirSeeds
  /\ last_file_handle \in FileSeeds
  /\ uris = EmptyMap
  /\ alive = TRUE
  /\ nOps = 0
  /\ dirIssued = <<>>
  /\ fileIssued = <<>>

Init == RtFS_new
\* mutant: a lock that excludes nobody
CanLockAlways(l) == TRUE

\* ------------------------------------------------------------------ locks
\* Mutex::lock returns once no other thread owns the mutex
CanLock(l) == lock[l] = NoThread

Acquire(l, t) == [lock EXCEPT ![l] = t]

\* mutant: the guards are leaked, no lock is given back
ReleaseNone(t) == lock


ReleaseAll(t) == [l \in LockNames |-> IF lock[l] = t THEN NoThread ELSE lock[l]]

HeldBy(t) == {l \in LockNames : lock[l] = t}

\* a thread may be handed a new call when it is not inside one
CanDispatch(t) ==
  /\ alive
  /\ th[t].pc \in {"idle", "done"}
  /\ nOps < MaxOps

Call(t, op, path, fh) ==
  [IdleThread EXCEPT !.op = op, !.path = path, !.fh = fh]

\* the call of thread t returns with record rec; the record of a call that
\* returned earlier is dropped (only the latest return is kept as history)
Return(t, rec) ==
  [u \in Threads |->
     IF u = t THEN rec
     ELSE IF th[u].pc = "done" THEN IdleThread ELSE th[u]]

\* thread t moves on to record rec
Step(t, rec) ==
  IF rec.pc = "done" THEN Return(t, rec) ELSE [th EXCEPT ![t] = rec]

\* a panic unwinds the calling operation and takes the adapter down
Panic(t) ==
  /\ th' = Step(t, [th[t] EXCEPT !.pc = "panicked"])
  /\ alive' = FALSE

\* ---------------------------------------------------------- stat_for_path
StampsParse(st) ==
  /\ timestamp_to_timespec(st.last_updated) # ParseErr
  /\ timestamp_to_timespec(st.last_modified) # ParseErr
  /\ timestamp_to_timespec(st.created) # ParseErr

\* stat_for_path does not produce an attribute record: size.parse().unwrap()
\* panics, or a timestamp's `?` returns Err and getattr's expect("boo") panics
StatFails(listing) ==
  \/ listing.tag = "File" /\ ParseU64(listing.size) = ParseErr
  \/ listing.tag \in {"File", "Directory"} /\ ~StampsParse(listing.stamps)

\* the kind stat_for_path derives from a listing
KindOf(listing) ==
  IF listing.tag = "File" THEN "RegularFile" ELSE "Directory"
\* mutant: the size field of a File listing is not used
FileAttrFixedSize(listing) ==
  [kind |-> KindOf(listing),
   size |-> DirSize,
   atime |-> IF listing.tag \in {"File", "Directory"}
               THEN timestamp_to_timespec(listing.stamps.last_updated) ELSE 1,
   mtime |-> IF listing.tag \in {"File", "Directory"}
               THEN timestamp_to_timespec(listing.stamps.last_modified) ELSE 1,
   ctime |-> IF listing.tag \in {"File", "Directory"}
               THEN timestamp_to_timespec(listing.stamps.created) ELSE 1,
   perm |-> perm,
   nlink |-> 1]

\* the FileAttr stat_for_path builds from a listing
FileAttr(listing) ==
  [kind |-> KindOf(listing),
   size |-> IF listing.tag = "File" THEN ParseU64(listing.size) ELSE DirSize,
   atime |-> IF listing.tag \in {"File", "Directory"}
               THEN timestamp_to_timespec(listing.stamps.last_updated) ELSE 1,
   mtime |-> IF listing.tag \in {"File", "Directory"}
               THEN timestamp_to_timespec(listing.stamps.last_modified) ELSE 1,
   ctime |-> IF listing.tag \in {"File", "Directory"}
               THEN timestamp_to_timespec(listing.stamps.created) ELSE 1,
   perm |-> perm,
   nlink |-> 1]

\* getattr / opendir / open are dispatched: the path is normalised and the
\* storage request goes out
stat_request(t, op, path) ==
  /\ CanDispatch(t)
  /\ th' = Step(t, [Call(t, op, path, 0) EXCEPT !.pc = "stat_storage",
                                    !.query = StatQueryPath(path),
                                    !.queried = TRUE])
  /\ nOps' = nOps + 1
  /\ UNCHANGED <<lock, adapter, alive, dirIssued, fileIssued>>

getattr(t) == \E path \in FsPaths : stat_request(t, "getattr", path)

opendir(t) == \E path \in FsPaths : stat_request(t, "opendir", path)

open(t) == \E path \in FsPaths : stat_request(t, "open", path)

\* self.rt.storage(&path) returns; Err(e) => panic!
stat_storage(t) ==
  /\ alive
  /\ th[t].pc = "stat_storage"
  /\ \E r \in StorageResults :
       IF r = TransportErr
         THEN Panic(t)
         ELSE /\ th' = Step(t, [th[t] EXCEPT !.pc = "stat_lock", !.listing = r])
              /\ UNCHANGED alive
  /\ UNCHANGED <<lock, adapter, nOps, dirIssued, fileIssued>>

\* self._uris.lock()
stat_lock_uris(t) ==
  /\ alive
  /\ th[t].pc = "stat_lock"
  /\ CanLock("_uris")
  /\ lock' = Acquire("_uris", t)
  /\ th' = Step(t, [th[t] EXCEPT !.pc = "stat_attr"])
  /\ UNCHANGED <<adapter, alive, nOps, dirIssued, fileIssued>>
\* mutant: opendir and open allocate whatever kind the stat reports
AfterStatAnyKind(rec, attr) ==
  CASE rec.op = "getattr" ->
         [rec EXCEPT !.pc = "done", !.attr = attr,
                     !.result = [tag |-> "Ok", attr |-> attr]]
    [] rec.op = "opendir" -> [rec EXCEPT !.pc = "dh_lock_counter", !.attr = attr]
    [] rec.op = "open" -> [rec EXCEPT !.pc = "fh_lock_counter", !.attr = attr]

\* what the caller of getattr does with the attribute record
AfterStat(rec, attr) ==
  CASE rec.op = "getattr" ->
         [rec EXCEPT !.pc = "done", !.attr = attr,
                     !.result = [tag |-> "Ok", attr |-> attr]]
    [] rec.op = "opendir" ->
         IF attr.kind = "Directory"
           THEN [rec EXCEPT !.pc = "dh_lock_counter", !.attr = attr]
           ELSE [rec EXCEPT !.pc = "done", !.attr = attr,
                            !.result = [tag |-> "Err", errno |-> ENOTDIR]]
    [] rec.op = "open" ->
         IF attr.kind = "RegularFile"
           THEN [rec EXCEPT !.pc = "fh_lock_counter", !.attr = attr]
           ELSE [rec EXCEPT !.pc = "done", !.attr = attr,
                            !.result = [tag |-> "Err", errno |-> EISDIR]]

\* the rest of stat_for_path under the _uris lock: the locator of a File is
\* recorded, the attribute record is built, the guard is dropped
stat_for_path(t) ==
  /\ alive
  /\ th[t].pc = "stat_attr"
  /\ LET listing == th[t].listing IN
       /\ uris' = IF listing.tag = "File"
                    THEN Insert(uris, UriKey(th[t].path), listing.uri)
                    ELSE uris
       /\ IF StatFails(listing)
            THEN /\ Panic(t)
                 /\ UNCHANGED lock
            ELSE /\ th' = Step(t, AfterStat(th[t], FileAttr(listing)))
                 /\ lock' = ReleaseAll(t)
                 /\ UNCHANGED alive
  /\ UNCHANGED <<dir_handles, file_handles, last_dir_handle, last_file_handle,
                 nOps, dirIssued, fileIssued>>

\* --------------------------------------------------------- get_dir_handle
FsInfo(rec) == [attr |-> rec.attr, path |-> rec.path]

dh_lock_counter(t) ==
  /\ alive
  /\ th[t].pc = "dh_lock_counter"
  /\ CanLock("_last_dir_handle")
  /\ lock' = Acquire("_last_dir_handle", t)
  /\ th' = Step(t, [th[t] EXCEPT !.pc = "dh_increment"])
  /\ UNCHANGED <<adapter, alive, nOps, dirIssued, fileIssued>>

\* mutant: a counter too narrow for its seed, which wraps around to zero
NextHandleNarrow(last) == (last + 1) % (SeedLow + 2)

\* mutant: the counter is not advanced
NextHandleSame(last) == last

\* *dh += 1
NextHandle(last) == last + 1

dh_increment(t) ==
  /\ alive
  /\ th[t].pc = "dh_increment"
  /\ last_dir_handle' = NextHandle(last_dir_handle)
  /\ th' = Step(t, [th[t] EXCEPT !.pc = "dh_lock_table"])
  /\ UNCHANGED <<lock, dir_handles, file_handles, last_file_handle, uris,
                 alive, nOps, dirIssued, fileIssued>>

dh_lock_table(t) ==
  /\ alive
  /\ th[t].pc = "dh_lock_table"
  /\ CanLock("_dir_handles")
  /\ lock' = Acquire("_dir_handles", t)
  /\ th' = Step(t, [th[t] EXCEPT !.pc = "dh_insert"])
  /\ UNCHANGED <<adapter, alive, nOps, dirIssued, fileIssued>>

\* dh_registry.insert(*dh, fs_info.clone()); *dh is returned, both guards drop
dh_insert(t) ==
  /\ alive
  /\ th[t].pc = "dh_insert"
  /\ dir_handles' = Insert(dir_handles, last_dir_handle, FsInfo(th[t]))
  /\ dirIssued' = Append(dirIssued, last_dir_handle)
  /\ th' = Step(t, [th[t] EXCEPT !.pc = "done",
                      !.result = [tag |-> "Ok", fh |-> last_dir_handle]])
  /\ lock' = ReleaseAll(t)
  /\ UNCHANGED <<file_handles, last_dir_handle, last_file_handle, uris,
                 alive, nOps, fileIssued>>

\* -------------------------------------------------------- get_file_handle
fh_lock_counter(t) ==
  /\ alive
  /\ th[t].pc = "fh_lock_counter"
  /\ CanLock("_last_file_handle")
  /\ lock' = Acquire("_last_file_handle", t)
  /\ th' = Step(t, [th[t] EXCEPT !.pc = "fh_increment"])
  /\ UNCHANGED <<adapter, alive, nOps, dirIssued, fileIssued>>

fh_increment(t) ==
  /\ alive
  /\ th[t].pc = "fh_increment"
  /\ last_file_handle' = NextHandle(last_file_handle)
  /\ th' = Step(t, [th[t] EXCEPT !.pc = "fh_lock_table"])
  /\ UNCHANGED <<lock, dir_handles, file_handles, last_dir_handle, uris,
                 alive, nOps, dirIssued, fileIssued>>

fh_lock_table(t) ==
  /\ alive
  /\ th[t].pc = "fh_lock_table"
  /\ CanLock("_file_handles")
  /\ lock' = Acquire("_file_handles", t)
  /\ th' = Step(t, [th[t] EXCEPT !.pc = "fh_insert"])
  /\ UNCHANGED <<adapter, alive, nOps, dirIssued, fileIssued>>

fh_insert(t) ==
  /\ alive
  /\ th[t].pc = "fh_insert"
  /\ file_handles' = Insert(file_handles, last_file_handle, FsInfo(th[t]))
  /\ fileIssued' = Append(fileIssued, last_file_handle)
  /\ th' = Step(t, [th[t] EXCEPT !.pc = "done",
                      !.result = [tag |-> "Ok", fh |-> last_file_handle]])
  /\ lock' = ReleaseAll(t)
  /\ UNCHANGED <<dir_handles, last_dir_handle, last_file_handle, uris,
                 alive, nOps, dirIssued>>

\* ----------------------------------------------------- releasedir, release
\* releasedir is dispatched (its path is only logged)
releasedir(t) ==
  /\ CanDispatch(t)
  /\ \E fh \in DirHandleArgs :
       th' = Step(t, [Call(t, "releasedir", Root, fh) EXCEPT
            !.pc = "releasedir_lock",
            !.fhOpenAtCall = (fh \in DOMAIN dir_handles)])
  /\ nOps' = nOps + 1
  /\ UNCHANGED <<lock, adapter, alive, dirIssued, fileIssued>>

releasedir_lock(t) ==
  /\ alive
  /\ th[t].pc = "releasedir_lock"
  /\ CanLock("_dir_handles")
  /\ lock' = Acquire("_dir_handles", t)
  /\ th' = Step(t, [th[t] EXCEPT !.pc = "releasedir_remove"])
  /\ UNCHANGED <<adapter, alive, nOps, dirIssued, fileIssued>>
\* mutant: an unknown handle empties the registry
RemoveOrClear(registry, fh) ==
  IF fh \in DOMAIN registry THEN Remove(registry, fh) ELSE EmptyMap

\* mutant: an unknown handle evicts the oldest entry
RemoveOrOldest(registry, fh) ==
  IF fh \in DOMAIN registry THEN Remove(registry, fh)
  ELSE [x \in {y \in DOMAIN registry : \E z \in DOMAIN registry : z < y}
          |-> registry[x]]

\* if registry.contains_key(&fh) { registry.remove(&fh); }
RemoveIfPresent(registry, fh) ==
  IF fh \in DOMAIN registry THEN Remove(registry, fh) ELSE registry

releasedir_remove(t) ==
  /\ alive
  /\ th[t].pc = "releasedir_remove"
  /\ dir_handles' = RemoveIfPresent(dir_handles, th[t].fh)
  /\ lock' = ReleaseAll(t)
  /\ th' = Step(t, [th[t] EXCEPT !.pc = "done", !.result = [tag |-> "Ok"]])
  /\ UNCHANGED <<file_handles, last_dir_handle, last_file_handle, uris,
                 alive, nOps, dirIssued, fileIssued>>

release(t) ==
  /\ CanDispatch(t)
  /\ \E fh \in FileHandleArgs :
       th' = Step(t, [Call(t, "release", Root, fh) EXCEPT
            !.pc = "release_lock",
            !.fhOpenAtCall = (fh \in DOMAIN file_handles)])
  /\ nOps' = nOps + 1
  /\ UNCHANGED <<lock, adapter, alive, dirIssued, fileIssued>>

release_lock(t) ==
  /\ alive
  /\ th[t].pc = "release_lock"
  /\ CanLock("_file_handles")
  /\ lock' = Acquire("_file_handles", t)
  /\ th' = Step(t, [th[t] EXCEPT !.pc = "release_remove"])
  /\ UNCHANGED <<adapter, alive, nOps, dirIssued, fileIssued>>

release_remove(t) ==
  /\ alive
  /\ th[t].pc = "release_remove"
  /\ file_handles' = RemoveIfPresent(file_handles, th[t].fh)
  /\ lock' = ReleaseAll(t)
  /\ th' = Step(t, [th[t] EXCEPT !.pc = "done", !.result = [tag |-> "Ok"]])
  /\ UNCHANGED <<dir_handles, last_dir_handle, last_file_handle, uris,
                 alive, nOps, dirIssued, fileIssued>>
\* mutant: the zero handle is not rejected
MissingFhNever(fh) == FALSE

\* ---------------------------------------------------------------- readdir
\* if fh == 0 { return Err(libc::EINVAL); }
MissingFh(fh) == fh = 0

\* one DirectoryEntry per child of the listing
DirectoryEntries(children) ==
  [i \in 1..Len(children) |->
     [name |-> get_name(children[i].uri),
      kind |-> IF children[i].folder THEN "Directory" ELSE "RegularFile"]]

\* readdir is dispatched: a zero handle is rejected, otherwise the storage
\* request goes out
readdir(t) ==
  /\ CanDispatch(t)
  /\ \E path \in FsPaths, fh \in DirHandleArgs :
       LET rec == [Call(t, "readdir", path, fh) EXCEPT
                     !.fhOpenAtCall = (fh \in DOMAIN dir_handles)]
       IN  th' = Step(t, IF MissingFh(fh)
               THEN [rec EXCEPT !.pc = "done",
                                !.result = [tag |-> "Err", errno |-> EINVAL]]
               ELSE [rec EXCEPT !.pc = "readdir_storage",
                                !.query = ReaddirQueryPath(path),
                                !.queried = TRUE])
  /\ nOps' = nOps + 1
  /\ UNCHANGED <<lock, adapter, alive, dirIssued, fileIssued>>

\* mutant: an Error listing is surfaced as an error
readdir_storage_strict(t) ==
  /\ alive
  /\ th[t].pc = "readdir_storage"
  /\ \E r \in StorageResults :
       CASE r = TransportErr ->
              /\ th' = Step(t, [th[t] EXCEPT !.pc = "done",
                          !.result = [tag |-> "Ok", entries |-> <<>>]])
              /\ UNCHANGED alive
         [] r.tag = "Error" ->
              /\ th' = Step(t, [th[t] EXCEPT !.pc = "done", !.listing = r,
                          !.result = [tag |-> "Err", errno |-> EINVAL]])
              /\ UNCHANGED alive
         [] r.tag = "File" ->
              /\ th' = Step(t, [th[t] EXCEPT !.pc = "panicked", !.listing = r])
              /\ alive' = FALSE
         [] r.tag = "Directory" ->
              IF \E i \in 1..Len(r.children) : GetNamePanics(r.children[i].uri)
                THEN /\ th' = Step(t, [th[t] EXCEPT !.pc = "panicked", !.listing = r])
                     /\ alive' = FALSE
                ELSE /\ th' = Step(t, [th[t] EXCEPT !.pc = "done", !.listing = r,
                            !.result =
                              [tag |-> "Ok",
                               entries |-> DirectoryEntries(r.children)]])
                     /\ UNCHANGED alive
  /\ UNCHANGED <<lock, adapter, nOps, dirIssued, fileIssued>>

\* self.rt.storage(&path_str) returns and the entries are built
readdir_storage(t) ==
  /\ alive
  /\ th[t].pc = "readdir_storage"
  /\ \E r \in StorageResults :
       CASE r = TransportErr ->
              /\ th' = Step(t, [th[t] EXCEPT !.pc = "done",
                          !.result = [tag |-> "Ok", entries |-> <<>>]])
              /\ UNCHANGED alive
         [] r.tag = "Error" ->
              /\ th' = Step(t, [th[t] EXCEPT !.pc = "done", !.listing = r,
                          !.result = [tag |-> "Ok", entries |-> <<>>]])
              /\ UNCHANGED alive
         [] r.tag = "File" ->
              /\ th' = Step(t, [th[t] EXCEPT !.pc = "panicked", !.listing = r])
              /\ alive' = FALSE
         [] r.tag = "Directory" ->
              IF \E i \in 1..Len(r.children) : GetNamePanics(r.children[i].uri)
                THEN /\ th' = Step(t, [th[t] EXCEPT !.pc = "panicked", !.listing = r])
                     /\ alive' = FALSE
                ELSE /\ th' = Step(t, [th[t] EXCEPT !.pc = "done", !.listing = r,
                            !.result =
                              [tag |-> "Ok",
                               entries |-> DirectoryEntries(r.children)]])
                     /\ UNCHANGED alive
  /\ UNCHANGED <<lock, adapter, nOps, dirIssued, fileIssued>>

\* ------------------------------------------------------------------- read
\* read is dispatched
read(t) ==
  /\ CanDispatch(t)
  /\ \E path \in FsPaths, fh \in FileHandleArgs, offset \in Offsets, size \in Sizes :
       th' = Step(t, [Call(t, "read", path, fh) EXCEPT
            !.pc = "read_lock", !.offset = offset, !.size = size,
            !.fhOpenAtCall = (fh \in DOMAIN file_handles)])
  /\ nOps' = nOps + 1
  /\ UNCHANGED <<lock, adapter, alive, dirIssued, fileIssued>>

\* self._uris.lock(), then _uri_registry.get(path_str): Some(uri) sends the
\* ranged request, None panics
read_lock_uris(t) ==
  /\ alive
  /\ th[t].pc = "read_lock"
  /\ CanLock("_uris")
  /\ lock' = Acquire("_uris", t)
  /\ IF th[t].path \in DOMAIN uris
       THEN /\ th' = Step(t, [th[t] EXCEPT !.pc = "read_file",
                                !.locator = uris[th[t].path],
                                !.queried = TRUE])
            /\ UNCHANGED alive
       ELSE Panic(t)
  /\ UNCHANGED <<adapter, nOps, dirIssued, fileIssued>>

\* resp.copy_to(buf): io::Write for Vec<u8> appends to the vector
copy_to(buf, body) == buf \o body

\* the buffer read creates with set_len(size): size bytes, uninitialised
UninitBuffers(size) == [1..size -> GarbageBytes]

\* Artifactory::read_file returns (an Err panics in expect), the buffer is
\* handed to the result callback, the _uris guard drops
read_file(t) ==
  /\ alive
  /\ th[t].pc = "read_file"
  /\ \E ok \in BOOLEAN, data \in UninitBuffers(th[t].size) :
       IF ok
         THEN LET range == RangeHeader(th[t].offset, th[t].size)
                  body == RangeBody(RemoteContent(th[t].locator),
                                    range[1], range[2])
              IN  /\ th' = Step(t, [th[t] EXCEPT !.pc = "done",
                              !.result =
                                [tag |-> "Ok", body |-> body,
                                 data |-> copy_to(data, body)]])
                  /\ lock' = ReleaseAll(t)
                  /\ UNCHANGED alive
         ELSE /\ Panic(t)
              /\ UNCHANGED lock
  /\ UNCHANGED <<adapter, nOps, dirIssued, fileIssued>>

\* ---------------------------------------------------------- specification
Next ==
  \E t \in Threads :
    \/ getattr(t)
    \/ opendir(t)
    \/ open(t)
    \/ stat_storage(t)
    \/ stat_lock_uris(t)
    \/ stat_for_path(t)
    \/ dh_lock_counter(t)
    \/ dh_increment(t)
    \/ dh_lock_table(t)
    \/ dh_insert(t)
    \/ fh_lock_counter(t)
    \/ fh_increment(t)
    \/ fh_lock_table(t)
    \/ fh_insert(t)
    \/ releasedir(t)
    \/ releasedir_lock(t)
    \/ releasedir_remove(t)
    \/ release(t)
    \/ release_lock(t)
    \/ release_remove(t)
    \/ readdir(t)
    \/ readdir_storage(t)
    \/ read(t)
    \/ read_lock_uris(t)
    \/ read_file(t)

Spec == Init /\ [][Next]_vars

TypeOK ==
  /\ alive \in BOOLEAN
  /\ nOps \in 0..MaxOps
  /\ \A l \in LockNames : lock[l] \in Threads \cup {NoThread}
  /\ DOMAIN dir_handles \subseteq Nat
  /\ DOMAIN file_handles \subseteq Nat

\* ================================================================= claims
\* thread t takes a step of a call of operation op
StepOf(t, op) == th'[t] # th[t] /\ th'[t].op = op

StatOps == {"getattr", "opendir", "open"}

DirAllocPcs == {"dh_increment", "dh_lock_table", "dh_insert"}
FileAllocPcs == {"fh_increment", "fh_lock_table", "fh_insert"}

Distinct(issued, table) ==
  \A i, j \in DOMAIN issued :
    (i # j /\ issued[i] \in DOMAIN table /\ issued[j] \in DOMAIN table)
      => issued[i] # issued[j]

\* C1: two handles returned by successful opendir calls (respectively open
\* calls) that are in the same handle table at the same time are different
\* numbers, and at most one thread at a time is between taking the counter
\* lock and finishing the table insertion of an allocation on one table.
C1_HandlesDistinct ==
  /\ Distinct(dirIssued, dir_handles)
  /\ Distinct(fileIssued, file_handles)
  /\ Cardinality({t \in Threads : th[t].pc \in DirAllocPcs}) <= 1
  /\ Cardinality({t \in Threads : th[t].pc \in FileAllocPcs}) <= 1

\* two opendir calls have returned and both handles are in the table
C1_Witness ==
  /\ Len(dirIssued) = 2
  /\ \A i \in 1..2 : dirIssued[i] \in DOMAIN dir_handles

\* C2: an opendir whose stat saw a File listing returns ENOTDIR and none of
\* its steps changes the directory handle table or counter; an open whose
\* stat saw a Directory listing returns EISDIR and none of its steps changes
\* the file handle table or counter.  (The call returns whenever the
\* listing's size and timestamps parse.)
C2_TypeMismatchRejected ==
  /\ [](\A t \in Threads :
          /\ (th[t].op = "opendir" /\ th[t].listing.tag = "File")
               => /\ th[t].pc \in {"stat_lock", "stat_attr", "done", "panicked"}
                  /\ th[t].pc = "done"
                       => th[t].result = [tag |-> "Err", errno |-> ENOTDIR]
                  /\ th[t].pc = "panicked" => StatFails(th[t].listing)
          /\ (th[t].op = "open" /\ th[t].listing.tag = "Directory")
               => /\ th[t].pc \in {"stat_lock", "stat_attr", "done", "panicked"}
                  /\ th[t].pc = "done"
                       => th[t].result = [tag |-> "Err", errno |-> EISDIR]
                  /\ th[t].pc = "panicked" => StatFails(th[t].listing))
  /\ [][\A t \in Threads :
          /\ (StepOf(t, "opendir") /\ th'[t].listing.tag = "File")
               => UNCHANGED <<dir_handles, last_dir_handle>>
          /\ (StepOf(t, "open") /\ th'[t].listing.tag = "Directory")
               => UNCHANGED <<file_handles, last_file_handle>>]_vars

\* an opendir of a File path has returned ENOTDIR while a directory handle
\* is open
C2_Witness ==
  \E t \in Threads :
    /\ th[t].pc = "done"
    /\ th[t].op = "opendir"
    /\ th[t].listing.tag = "File"
    /\ th[t].result = [tag |-> "Err", errno |-> ENOTDIR]
    /\ DOMAIN dir_handles # {}

\* C3: a releasedir (respectively release) whose handle is not in the
\* directory (respectively file) handle table returns success, and none of
\* its steps changes a handle table, a counter or the locator cache.
C3_ReleaseUnknownIsNoOp ==
  [][\A t \in Threads :
       /\ (StepOf(t, "releasedir") /\ th'[t].fh \notin DOMAIN dir_handles)
            => /\ UNCHANGED adapter
               /\ th'[t].pc = "done" => th'[t].result = [tag |-> "Ok"]
       /\ (StepOf(t, "release") /\ th'[t].fh \notin DOMAIN file_handles)
            => /\ UNCHANGED adapter
               /\ th'[t].pc = "done" => th'[t].result = [tag |-> "Ok"]]_vars

\* a releasedir of a handle that is not in the table has returned while
\* another directory handle is open
C3_Witness ==
  \E t \in Threads :
    /\ th[t].pc = "done"
    /\ th[t].op = "releasedir"
    /\ ~th[t].fhOpenAtCall
    /\ th[t].fh \notin DOMAIN dir_handles
    /\ DOMAIN dir_handles # {}

\* C4: a read of a path that is open as a file hands its caller exactly the
\* bytes the ranged fetch returned, and fewer than size bytes when the range
\* [offset, offset + size) extends past the end of the content.
C4_ReadReturnsFetchedBytes ==
  \A t \in Threads :
    (/\ th[t].pc = "done"
     /\ th[t].op = "read"
     /\ \E h \in DOMAIN file_handles : file_handles[h].path = th[t].path)
      => /\ th[t].result.tag = "Ok"
         /\ th[t].result.data = th[t].result.body
         /\ th[t].offset + th[t].size > Len(RemoteContent(th[t].locator))
              => Len(th[t].result.data) < th[t].size

\* the numeric value of a string of decimal digits
RECURSIVE NumericValue(_)
NumericValue(s) ==
  IF Len(s) = 1 THEN DigitVal(s[1])
  ELSE 10 * NumericValue(SubSeq(s, 1, Len(s) - 1)) + DigitVal(s[Len(s)])

\* C5: a getattr whose stat saw a Directory listing returns kind Directory
\* and size 4096; one whose stat saw a File listing returns kind RegularFile
\* and the numeric value of the listing's size field.  (The call returns
\* whenever the listing's size and timestamps parse.)
C5_GetattrKindAndSize ==
  \A t \in Threads :
    (th[t].op = "getattr" /\ th[t].listing.tag \in {"Directory", "File"})
      => /\ th[t].pc \in {"stat_lock", "stat_attr", "done", "panicked"}
         /\ th[t].pc = "panicked" => StatFails(th[t].listing)
         /\ th[t].pc = "done"
              => /\ th[t].result.tag = "Ok"
                 /\ th[t].listing.tag = "Directory"
                      => /\ th[t].result.attr.kind = "Directory"
                         /\ th[t].result.attr.size = 4096
                 /\ th[t].listing.tag = "File"
                      => /\ th[t].result.attr.kind = "RegularFile"
                         /\ th[t].result.attr.size = NumericValue(th[t].listing.size)

\* a getattr of a File whose size field reads "10" has returned size 10
C5_Witness ==
  \E t \in Threads :
    /\ th[t].pc = "done"
    /\ th[t].op = "getattr"
    /\ th[t].listing.tag = "File"
    /\ th[t].listing.size = <<"1", "0">>
    /\ th[t].result.attr.size = 10

\* a child reference without its leading separator
StripLeadingSeparator(ref) ==
  IF ref # <<>> /\ Head(ref) = "/" THEN Tail(ref) ELSE ref

\* C6: a readdir that returns for a Directory listing returns one entry per
\* child of that listing, in the listing's order; the name of an entry whose
\* child reference has a leading separator is the reference without it, and
\* an entry's kind is Directory when the folder flag is set and RegularFile
\* otherwise.  The claim's case is the path "/" with a handle opendir("/")
\* returned.
C6_ReaddirEntries ==
  \A t \in Threads :
    (th[t].pc = "done" /\ th[t].op = "readdir" /\ th[t].listing.tag = "Directory")
      => LET children == th[t].listing.children
             entries == th[t].result.entries
         IN  /\ th[t].result.tag = "Ok"
             /\ Len(entries) = Len(children)
             /\ \A i \in 1..Len(children) :
                  /\ StartsWith(children[i].uri, <<"/">>)
                       => entries[i].name = StripLeadingSeparator(children[i].uri)
                  /\ entries[i].kind =
                       IF children[i].folder THEN "Directory" ELSE "RegularFile"

\* readdir("/") with the open handle of opendir("/") has returned the two
\* entries of a two-child listing
C6_Witness ==
  \E t \in Threads :
    /\ th[t].pc = "done"
    /\ th[t].op = "readdir"
    /\ th[t].path = Root
    /\ th[t].fh \in DOMAIN dir_handles
    /\ dir_handles[th[t].fh].path = Root
    /\ th[t].fhOpenAtCall
    /\ th[t].listing.tag = "Directory"
    /\ Len(th[t].listing.children) = 2
    /\ th[t].result.entries =
         << [name |-> <<"f">>, kind |-> "RegularFile"],
            [name |-> <<"o">>, kind |-> "Directory"] >>

\* C7: a getattr (or the getattr inside opendir and open) whose stat saw an
\* Error listing produces no attribute record: the call ends with an error
\* and allocates no handle.
C7_ErrorListingFailsStat ==
  \A t \in Threads :
    (th[t].op \in StatOps /\ th[t].listing.tag = "Error")
      => /\ th[t].attr = NoAttr
         /\ th[t].pc \notin DirAllocPcs \cup FileAllocPcs
         /\ th[t].pc = "done" => th[t].result.tag = "Err"

\* C8: no filesystem operation terminates the adapter.
C8_AdapterStaysAlive ==
  alive /\ \A t \in Threads : th[t].pc # "panicked"

\* C9: a readdir whose handle is not in the directory handle table, and a
\* read whose handle is not in the file handle table, return an error.
C9_DataOnlyForOpenHandle ==
  \A t \in Threads :
    /\ (/\ th[t].pc = "done" /\ th[t].op = "readdir"
        /\ ~th[t].fhOpenAtCall /\ th[t].fh \notin DOMAIN dir_handles)
         => th[t].result.tag = "Err"
    /\ (/\ th[t].pc = "done" /\ th[t].op = "read"
        /\ ~th[t].fhOpenAtCall /\ th[t].fh \notin DOMAIN file_handles)
         => th[t].result.tag = "Err"

\* C10: a readdir with handle zero returns EINVAL, sends no query to the
\* Repository Client, and its step changes no handle table, counter, locator
\* cache or lock.
C10_ReaddirZeroHandle ==
  /\ [](\A t \in Threads :
          (th[t].op = "readdir" /\ th[t].fh = 0)
            => /\ th[t].pc = "done"
               /\ th[t].result = [tag |-> "Err", errno |-> EINVAL]
               /\ ~th[t].queried)
  /\ [][\A t \in Threads :
          (StepOf(t, "readdir") /\ th'[t].fh = 0)
            => UNCHANGED <<adapter, lock, alive>>]_vars

\* readdir with handle zero has returned EINVAL while a directory handle is
\* open
C10_Witness ==
  \E t \in Threads :
    /\ th[t].pc = "done"
    /\ th[t].op = "readdir"
    /\ th[t].fh = 0
    /\ th[t].result = [tag |-> "Err", errno |-> EINVAL]
    /\ DOMAIN dir_handles # {}

\* the step removes or rebinds handle h of table
Disturbed(table, tableNext, h) ==
  h \notin DOMAIN tableNext \/ tableNext[h] # table[h]

\* C11: a handle returned by a successful opendir (respectively open) is
\* entered in the directory (respectively file) handle table with the path
\* and attribute record of its call, and the only step that removes or
\* rebinds an entry of a table is the removal step of a releasedir
\* (respectively release) called with that handle value.
C11_HandleStaysUntilRelease ==
  [][/\ \A h \in DOMAIN dir_handles :
          Disturbed(dir_handles, dir_handles', h)
            => \E t \in Threads :
                 /\ th[t].op = "releasedir" /\ th[t].fh = h
                 /\ th[t].pc = "releasedir_remove" /\ th'[t].pc = "done"
     /\ \A h \in DOMAIN file_handles :
          Disturbed(file_handles, file_handles', h)
            => \E t \in Threads :
                 /\ th[t].op = "release" /\ th[t].fh = h
                 /\ th[t].pc = "release_remove" /\ th'[t].pc = "done"
     /\ \A t \in Threads :
          /\ (th[t].pc = "dh_insert" /\ th'[t].pc = "done")
               => /\ th'[t].result.fh \in DOMAIN dir_handles'
                  /\ dir_handles'[th'[t].result.fh] =
                       [attr |-> th[t].attr, path |-> th[t].path]
          /\ (th[t].pc = "fh_insert" /\ th'[t].pc = "done")
               => /\ th'[t].result.fh \in DOMAIN file_handles'
                  /\ file_handles'[th'[t].result.fh] =
                       [attr |-> th[t].attr, path |-> th[t].path]]_vars

\* a releasedir of another handle value has returned and the handle opendir
\* issued for "/a" is still bound to "/a"
C11_Witness ==
  \E t \in Threads :
    /\ th[t].pc = "done"
    /\ th[t].op = "releasedir"
    /\ th[t].fh # 0
    /\ Len(dirIssued) = 1
    /\ th[t].fh < dirIssued[1]
    /\ dirIssued[1] \in DOMAIN dir_handles
    /\ dir_handles[dirIssued[1]].path = PathA

\* the steps a thread takes inside a call (everything but the dispatch)
ThreadStep(t) ==
  \/ stat_storage(t) \/ stat_lock_uris(t) \/ stat_for_path(t)
  \/ dh_lock_counter(t) \/ dh_increment(t) \/ dh_lock_table(t) \/ dh_insert(t)
  \/ fh_lock_counter(t) \/ fh_increment(t) \/ fh_lock_table(t) \/ fh_insert(t)
  \/ releasedir_lock(t) \/ releasedir_remove(t)
  \/ release_lock(t) \/ release_remove(t)
  \/ readdir_storage(t)
  \/ read_lock_uris(t) \/ read_file(t)

\* every runnable thread is scheduled, and every remote call returns
FairSpec == Spec /\ \A t \in Threads : WF_vars(ThreadStep(t))

AcquirePcs ==
  {"stat_lock", "read_lock", "dh_lock_counter", "dh_lock_table",
   "fh_lock_counter", "fh_lock_table", "releasedir_lock", "release_lock"}

\* the lock a thread at an acquiring position asks for
WantedLock(pc) ==
  CASE pc \in {"stat_lock", "read_lock"} -> "_uris"
    [] pc = "dh_lock_counter" -> "_last_dir_handle"
    [] pc = "fh_lock_counter" -> "_last_file_handle"
    [] pc \in {"dh_lock_table", "releasedir_lock"} -> "_dir_handles"
    [] pc \in {"fh_lock_table", "release_lock"} -> "_file_handles"

InCall(t) == th[t].pc \notin {"idle", "done", "panicked"}

Blocked(t) ==
  /\ th[t].pc \in AcquirePcs
  /\ lock[WantedLock(th[t].pc)] # NoThread

\* the lock sets a thread may hold: none, one lock, or a counter together
\* with its own table
LockSets ==
  {{}} \cup {{l} : l \in LockNames}
    \cup {{"_last_dir_handle", "_dir_handles"},
          {"_last_file_handle", "_file_handles"}}

C12_LockDiscipline ==
  alive =>
    \A t \in Threads :
      /\ HeldBy(t) \in LockSets
      /\ HeldBy(t) # {} => InCall(t)
      /\ th[t].pc \in AcquirePcs
           => HeldBy(t) =
                CASE th[t].pc = "dh_lock_table" -> {"_last_dir_handle"}
                  [] th[t].pc = "fh_lock_table" -> {"_last_file_handle"}
                  [] OTHER -> {}
      /\ Blocked(t)
           => \E u \in Threads \ {t} :
                /\ lock[WantedLock(th[t].pc)] = u
                /\ InCall(u)
                /\ ~Blocked(u)
      /\ (InCall(t) /\ ~Blocked(t)) => ENABLED ThreadStep(t)

\* C12: while the adapter runs, a thread holds at most two locks, and two
\* only as a counter lock taken before its own table lock; a thread waiting
\* for a lock waits for a thread that is inside a call and not itself
\* waiting, so no cycle of lock waits exists; and every call that is
\* dispatched ends (returns, or ends the adapter by a panic).
C12_NoLockWaitForever ==
  /\ []C12_LockDiscipline
  /\ \A t \in Threads : InCall(t) ~> (~InCall(t) \/ ~alive)

\* one thread waits for the directory counter lock while the other holds it
\* together with the directory table lock
C12_Witness ==
  \E t, u \in Threads :
    /\ th[t].pc = "dh_lock_counter"
    /\ Blocked(t)
    /\ HeldBy(u) = {"_last_dir_handle", "_dir_handles"}

\* C13: every entry of the file handle table has a locator cached under its
\* path, so a read whose lookup finds no locator is never a read of a path
\* that is open as a file.
C13_OpenFileHasLocator ==
  /\ \A h \in DOMAIN file_handles : file_handles[h].path \in DOMAIN uris
  /\ \A t \in Threads :
       (th[t].op = "read" /\ th[t].pc = "panicked" /\ th[t].locator = "")
         => \A h \in DOMAIN file_handles : file_handles[h].path # th[t].path

\* a read of "/a" has found the locator while "/a" is open as a file
C13_Witness ==
  \E t \in Threads, h \in DOMAIN file_handles :
    /\ th[t].op = "read"
    /\ th[t].pc = "read_file"
    /\ th[t].path = PathA
    /\ file_handles[h].path = PathA
    /\ th[t].locator = uris[PathA]

\* C14: once the stat of a call has resolved its path to a File listing, the
\* locator cache maps that path to the listing's download locator, and a
\* read fetches from a download locator.
C14_CacheHoldsDownloadLocator ==
  \A t \in Threads :
    /\ (/\ th[t].op \in StatOps
        /\ th[t].listing.tag = "File"
        /\ th[t].attr # NoAttr)
         => /\ th[t].path \in DOMAIN uris
            /\ uris[th[t].path] = th[t].listing.download_uri
    /\ (th[t].op = "read" /\ th[t].pc = "read_file")
         => th[t].locator \in {l.download_uri : l \in FileListings}

\* C15: the query path readdir sends for a filesystem path is the query path
\* getattr sends for it.
C15_ReaddirQueryIsStatQuery ==
  \A t \in Threads :
    (th[t].op = "readdir" /\ th[t].queried)
      => th[t].query = StatQueryPath(th[t].path)

\* C16 as claimed: no numeric handle value is in both handle tables at the
\* same time, and no handle in either table is zero.
C16_NoValueInBothTables ==
  /\ DOMAIN dir_handles \cap DOMAIN file_handles = {}
  /\ 0 \notin DOMAIN dir_handles \cup DOMAIN file_handles

\* C16, amended: for every pair of seeds, no handle in either table is zero
\* and every handle in a table is a value that table's own counter issued
\* (the same value may be in both tables).
C16_HandlesNonzero ==
  /\ 0 \notin DOMAIN dir_handles \cup DOMAIN file_handles
  /\ \A h \in DOMAIN dir_handles : \E i \in DOMAIN dirIssued : dirIssued[i] = h
  /\ \A h \in DOMAIN file_handles : \E i \in DOMAIN fileIssued : fileIssued[i] = h

\* one nonzero value is a directory handle and a file handle at once
C16_Witness ==
  \E h \in DOMAIN dir_handles \cap DOMAIN file_handles : h # 0

\* C17: a readdir with a nonzero handle whose storage query is answered with
\* an Error listing returns success with no entries, and none of its steps
\* changes a handle table, a counter, the locator cache or a lock.
C17_ReaddirErrorListingIsEmpty ==
  /\ [](\A t \in Threads :
          (th[t].op = "readdir" /\ th[t].listing.tag = "Error")
            => /\ th[t].fh # 0
               /\ th[t].pc = "done"
               /\ th[t].result = [tag |-> "Ok", entries |-> <<>>])
  /\ [][\A t \in Threads :
          (StepOf(t, "readdir") /\ th'[t].listing.tag = "Error")
            => UNCHANGED <<adapter, lock, alive>>]_vars

\* a readdir answered with an Error listing has returned no entries while a
\* file is open
C17_Witness ==
  \E t \in Threads :
    /\ th[t].pc = "done"
    /\ th[t].op = "readdir"
    /\ th[t].listing.tag = "Error"
    /\ th[t].result = [tag |-> "Ok", entries |-> <<>>]
    /\ DOMAIN file_handles # {}

\* the calls to the Repository Client: the pcs at which a thread waits for
\* the remote
RemotePcs == {"stat_storage", "readdir_storage", "read_file"}

\* C18: read asks the remote for exactly the half-open range
\* [offset, offset + size), so the fetch covers at most size bytes and read
\* never returns more than size bytes.
C18_ReadAtMostLength ==
  \A t \in Threads :
    /\ (th[t].op = "read" /\ th[t].pc = "read_file")
         => RangeHeader(th[t].offset, th[t].size)[2] < th[t].offset + th[t].size
    /\ (th[t].op = "read" /\ th[t].pc = "done" /\ th[t].result.tag = "Ok")
         => /\ Len(th[t].result.body) <= th[t].size
            /\ Len(th[t].result.data) <= th[t].size

\* C19: no adapter lock is held while a remote call is in flight, so a
\* second thread is never kept waiting for a lock by a thread that is
\* waiting for the remote.
C19_NoLockAcrossRemoteCall ==
  \A t \in Threads :
    /\ th[t].pc \in RemotePcs => HeldBy(t) = {}
    /\ Blocked(t)
         => \A u \in Threads :
              lock[WantedLock(th[t].pc)] = u => th[u].pc \notin RemotePcs

====
